---- MODULE Spec2Model ----
(***************************************************************************)
(* Anki-Ai core: the deduplicator (utils/data_processing.py), the card     *)
(* history ledger (utils/history.py) and the AnkiConnect synchronisation   *)
(* calls (utils/data_processing.py).                                       *)
(*                                                                         *)
(* Strings are sequences of one-character strings, so that str.lower and   *)
(* str.strip are computed character by character.  A DataFrame is a        *)
(* sequence of rows; a row is a record holding its index label ("Index")   *)
(* and its columns.                                                        *)
(***************************************************************************)
EXTENDS Integers, Sequences, FiniteSets, TLC

VARIABLES
    new_cards,           \* deduplicate_cards: the candidate DataFrame
    existing_questions,  \* deduplicate_cards: the list of delivered fronts
    dedup_pc,            \* "call" before deduplicate_cards ran, "done" after
    dedup_result,        \* the DataFrame deduplicate_cards returned
    files,               \* the history directory: file name -> file content
    clock,               \* datetime.now(), counted in calls of add_cards
    sync_op,             \* the AnkiConnect function invoked
    sync_pc,             \* "idle", the request in flight, "done" or "raised"
    requests,            \* the actions of the requests posted so far
    notes,               \* push_notes_to_anki: the number of notes submitted
    deck_outcome,        \* what the createDeck request came to
    note_outcome,        \* what the addNote / addNotes request came to
    card_ret,            \* the boolean push_card_to_anki returned
    notes_ret,           \* the pair push_notes_to_anki returned
    sync_raised,         \* the exception that reached the caller, or "none"
    anki_url,            \* check_ankiconnect: the URL after the default is applied
    check_ret,           \* the pair check_ankiconnect returned
    format_df,            \* format_cards_for_ankiconnect: the cards
    format_pc,           \* "call" before the formatter ran, "done" or "raised"
    format_ret,          \* the notes the formatter returned
    format_raised,       \* the exception the formatter raised, or "none"
    ledger_pc,           \* "call" before a CardHistory call, "done" or "raised"
    ledger_op,           \* the CardHistory method called
    ledger_args,         \* its arguments
    files_before,        \* the history directory when it was called
    ledger_read,         \* the history get_history returned
    ledger_count,        \* the count delete_deck or get_card_count returned
    ledger_raised,       \* the exception the call let through, or "none"
    chunks,              \* SimpleVectorStore.chunks
    index_pc,            \* "call" before a SimpleVectorStore call, then "done"
    index_op,            \* the SimpleVectorStore method called
    index_args,          \* its arguments and the answers of get_embedding
    chunks_before,       \* the chunks when it was called
    embed_calls,         \* the texts the call handed to get_embedding
    index_ret,           \* what search returned: positions in chunks
    index_raised,        \* the exception search raised, or "none"
    writer_pc,           \* of each session in add_cards: "start", "loaded", "done"
    writer_cards,        \* the cards_df of each session
    writer_history       \* the local variable history of each session

dedup_vars == <<new_cards, existing_questions, dedup_pc, dedup_result>>
ledger_vars == <<files, clock>>
sync_vars == <<sync_op, sync_pc, requests, notes, deck_outcome, note_outcome,
               card_ret, notes_ret, sync_raised>>

check_vars == <<anki_url, check_ret>>

format_vars == <<format_df, format_pc, format_ret, format_raised>>

call_vars == <<ledger_pc, ledger_op, ledger_args, files_before, ledger_read,
               ledger_count, ledger_raised>>

index_vars == <<chunks, index_pc, index_op, index_args, chunks_before,
                embed_calls, index_ret, index_raised>>

writer_vars == <<writer_pc, writer_cards, writer_history>>

vars == <<dedup_vars, ledger_vars, sync_vars, check_vars, format_vars, call_vars,
          index_vars, writer_vars>>

\* the variables an action of one component leaves alone
outside_dedup == <<ledger_vars, call_vars, sync_vars, check_vars, format_vars,
                   index_vars,
    writer_vars>>
outside_ledger == <<dedup_vars, sync_vars, check_vars, format_vars, index_vars,
    writer_vars>>
outside_sync == <<dedup_vars, ledger_vars, call_vars, format_vars, index_vars,
    writer_vars>>
outside_format == <<dedup_vars, ledger_vars, call_vars, sync_vars, check_vars,
                    index_vars,
    writer_vars>>
outside_writers == <<dedup_vars, sync_vars, check_vars, format_vars, index_vars,
    call_vars>>
outside_index == <<dedup_vars, ledger_vars, call_vars, sync_vars, check_vars,
                   format_vars,
    writer_vars>>

----------------------------------------------------------------------------
(* Bounds *)

\* longest candidate batch
MaxBatch == 3
\* longest existing_questions list
MaxExisting == 2
\* most generation rounds of one user
MaxRounds == 2
\* longest candidate batch of a generation round
MaxRoundBatch == 2
\* most notes of a batch, and longest result list of an addNotes response
MaxNotes == 3
\* most cards handed to the formatter
MaxFormatRows == 2
\* most records of the history file a CardHistory call finds
MaxLedgerRecords == 3
\* most cards of a batch handed to add_cards
MaxLedgerBatch == 2
\* most chunks of the store a SimpleVectorStore call finds
MaxStored == 3
\* most chunks handed to add_chunks
MaxChunks == 2
\* largest k handed to search
MaxK == 2

----------------------------------------------------------------------------
(* Strings *)

\* the front texts candidates and history entries are drawn from: three
\* questions, two of them in several spellings that differ in case and in
\* surrounding whitespace, the third with whitespace inside
FrontTexts ==
    { <<"Q">>, <<"q">>, <<" ", "Q", " ">>, <<"R">>, <<"r", " ">>,
      <<"Q", " ", "r">> }

\* str.lower on one character
lower_char(c) ==
    CASE c = "Q" -> "q"
      [] c = "R" -> "r"
      [] OTHER -> c

\* str.lower
lower(s) == [i \in 1..Len(s) |-> lower_char(s[i])]

\* the characters str.strip removes
is_space(c) == c = " "

RECURSIVE lstrip(_)
lstrip(s) == IF s # <<>> /\ is_space(Head(s)) THEN lstrip(Tail(s)) ELSE s

RECURSIVE rstrip(_)
rstrip(s) ==
    IF s # <<>> /\ is_space(s[Len(s)])
        THEN rstrip(SubSeq(s, 1, Len(s) - 1))
        ELSE s

\* str.strip
strip(s) == rstrip(lstrip(s))

----------------------------------------------------------------------------
(* DataFrames *)

\* pd.DataFrame(data): the rows of data under a RangeIndex 0..n-1
DataFrame(fronts) ==
    [i \in 1..Len(fronts) |-> [Index |-> i - 1, Front |-> fronts[i]]]

\* all sequences over S of length at most n
SeqsUpTo(S, n) == UNION { [1..k -> S] : k \in 0..n }

\* DataFrame.empty
empty(df) == Len(df) = 0

RECURSIVE loc_rows(_, _)
\* DataFrame.loc[labels]: for each label in turn, the rows carrying it
loc_rows(df, labels) ==
    IF labels = <<>>
        THEN <<>>
        ELSE SelectSeq(df, LAMBDA row : row.Index = Head(labels))
                 \o loc_rows(df, Tail(labels))

----------------------------------------------------------------------------
(* deduplicate_cards *)

\* mutant: the key without .strip()
normalize_no_strip(q) == lower(q)

\* the comparison key the code computes: .lower().strip() (str() leaves a
\* front that is a string as it is)
normalize(q) == strip(lower(q))

\* line 55: the set comprehension over existing_questions
existing_set_of(questions) ==
    { normalize(questions[i]) : i \in 1..Len(questions) }

RECURSIVE unique_indices_prepend(_, _, _, _)
\* mutant: the loop inserting each kept label at the head of the list
unique_indices_prepend(df, i, existing_set, unique_indices) ==
    IF i > Len(df)
        THEN unique_indices
        ELSE LET front == strip(lower(df[i].Front))
             IN  IF front \notin existing_set
                     THEN unique_indices_prepend(df, i + 1,
                              existing_set \cup {front},
                              <<df[i].Index>> \o unique_indices)
                     ELSE unique_indices_prepend(df, i + 1,
                              existing_set, unique_indices)

RECURSIVE unique_indices_from(_, _, _, _)
\* lines 58-64: the loop over new_cards.iterrows(), from row i on, with the
\* set and the list it has built so far
unique_indices_from(df, i, existing_set, unique_indices) ==
    IF i > Len(df)
        THEN unique_indices
        ELSE LET front == normalize(df[i].Front)
             IN  IF front \notin existing_set
                     THEN unique_indices_from(df, i + 1,
                              existing_set \cup {front},
                              Append(unique_indices, df[i].Index))
                     ELSE unique_indices_from(df, i + 1,
                              existing_set, unique_indices)

\* mutant: the loop entered with the first row's key already in the set
deduplicate_cards_seeded(cards, questions) ==
    IF empty(cards) \/ questions = <<>>
        THEN cards
        ELSE loc_rows(cards,
                 unique_indices_from(cards, 1,
                     existing_set_of(questions \o <<cards[1].Front>>), <<>>))

\* mutant: nothing returned when there is nothing to compare against
deduplicate_cards_none(cards, questions) ==
    IF empty(cards) \/ questions = <<>>
        THEN <<>>
        ELSE loc_rows(cards,
                 unique_indices_from(cards, 1, existing_set_of(questions), <<>>))

\* lines 46-66
deduplicate_cards(cards, questions) ==
    IF empty(cards) \/ questions = <<>>
        THEN cards
        ELSE loc_rows(cards,
                 unique_indices_from(cards, 1, existing_set_of(questions), <<>>))

----------------------------------------------------------------------------
(* Specification of deduplicate_cards over all bounded inputs *)

\* the variables of the other components, at rest
DedupIdle ==
    /\ new_cards = <<>>
    /\ existing_questions = <<>>
    /\ dedup_pc = "idle"
    /\ dedup_result = <<>>

\* the arguments of a CardHistory call, those it does not take left empty
NoLedgerArgs ==
    [email |-> <<>>, cards |-> <<>>, deck_name |-> <<>>, include_subdecks |-> FALSE]

\* no CardHistory call made
CallIdle ==
    /\ ledger_pc = "idle"
    /\ ledger_op = "none"
    /\ ledger_args = NoLedgerArgs
    /\ files_before = << >>
    /\ ledger_read = <<>>
    /\ ledger_count = 0
    /\ ledger_raised = "none"

LedgerIdle ==
    /\ files = << >>
    /\ clock = 0
    /\ CallIdle

\* no request made yet
NoOutcome ==
    [ kind |-> "none",
      body |-> [ json   |-> "none",
                 error  |-> [t |-> "absent", v |-> 0],
                 result |-> [t |-> "absent", v |-> 0] ] ]

NoNotesRet == [success_count |-> 0, errors |-> <<>>]

\* a diagnostic of check_ankiconnect: the fixed text, and the value and the
\* URL formatted into it
CheckMessage(text, value, url) == [text |-> text, value |-> value, url |-> url]

NoCheckRet ==
    [ ok |-> FALSE,
      message |-> CheckMessage("", [t |-> "absent", v |-> 0], <<>>) ]

SyncIdle ==
    /\ sync_op = "none"
    /\ sync_pc = "idle"
    /\ requests = <<>>
    /\ notes = 0
    /\ deck_outcome = NoOutcome
    /\ note_outcome = NoOutcome
    /\ card_ret = FALSE
    /\ notes_ret = NoNotesRet
    /\ sync_raised = "none"
    /\ anki_url = <<>>
    /\ check_ret = NoCheckRet

\* the arguments of a SimpleVectorStore call, those it does not take left
\* empty
NoIndexArgs ==
    [ texts |-> <<>>, metadata_list |-> [given |-> FALSE, list |-> <<>>],
      embs |-> <<>>, query_emb |-> [t |-> "null", v |-> 0], k |-> 0 ]

\* the sessions whose add_cards calls interleave
Writers == {1, 2}

\* no session in add_cards
WritersIdle ==
    /\ writer_pc = [w \in Writers |-> "idle"]
    /\ writer_cards = [w \in Writers |-> <<>>]
    /\ writer_history = [w \in Writers |-> <<>>]

\* an empty store and no call made
IndexIdle ==
    /\ chunks = <<>>
    /\ index_pc = "idle"
    /\ index_op = "none"
    /\ index_args = NoIndexArgs
    /\ chunks_before = <<>>
    /\ embed_calls = <<>>
    /\ index_ret = <<>>
    /\ index_raised = "none"

FormatIdle ==
    /\ format_df = <<>>
    /\ format_pc = "idle"
    /\ format_ret = <<>>
    /\ format_raised = "none"

DedupInit ==
    /\ WritersIdle
    /\ IndexIdle
    /\ LedgerIdle
    /\ SyncIdle
    /\ FormatIdle
    /\ new_cards \in { DataFrame(f) : f \in SeqsUpTo(FrontTexts, MaxBatch) }
    /\ existing_questions \in SeqsUpTo(FrontTexts, MaxExisting)
    /\ dedup_pc = "call"
    /\ dedup_result = <<>>

DeduplicateCards ==
    /\ dedup_pc = "call"
    /\ dedup_result' = deduplicate_cards(new_cards, existing_questions)
    /\ dedup_pc' = "done"
    /\ UNCHANGED <<new_cards, existing_questions>>
    /\ UNCHANGED outside_dedup

DedupNext == DeduplicateCards

SpecDedup == DedupInit /\ [][DedupNext]_vars

----------------------------------------------------------------------------
(* CardHistory: one JSON file per user *)

\* the user of the generation rounds
GuestEmail == <<"g", "@", "x", ".", "y">>

\* the deck add_cards records for a row without a Deck column
DefaultDeck == <<"D", "e", "f", "a", "u", "l", "t">>

RECURSIVE replace_chars(_, _, _)
\* str.replace(old, new) for a one-character old
replace_chars(s, old, new) ==
    IF s = <<>>
        THEN <<>>
        ELSE (IF Head(s) = old THEN new ELSE <<Head(s)>>)
                 \o replace_chars(Tail(s), old, new)

\* _get_user_file: the file name, without the directory and the extension
\* that are the same for every user
_get_user_file(email) ==
    replace_chars(replace_chars(email, "@", <<"_", "a", "t", "_">>), ".", <<"_">>)

\* A file content is [kind, data]: kind "list" for a JSON list, data its
\* records; "invalid_json" for text that is not JSON; "undecodable" for bytes
\* that are not UTF-8 text; "object" for the JSON object {}.

\* lines 35-39: the exception _load_history lets through: json.load on bytes
\* that are not UTF-8 raises UnicodeDecodeError, which is neither of the two
\* classes caught
_load_raises(fs, email) ==
    LET filepath == _get_user_file(email)
    IN  IF filepath \in DOMAIN fs /\ fs[filepath].kind = "undecodable"
            THEN "UnicodeDecodeError"
            ELSE "none"

\* json.load returned the object {} and not a list
_load_is_object(fs, email) ==
    LET filepath == _get_user_file(email)
    IN  filepath \in DOMAIN fs /\ fs[filepath].kind = "object"

\* _load_history: a missing file and a file json.load cannot decode both
\* read as the empty history; so does, for its length and its items, {}
_load_history(fs, email) ==
    LET filepath == _get_user_file(email)
    IN  IF filepath \notin DOMAIN fs
            THEN <<>>
            ELSE IF fs[filepath].kind = "list" THEN fs[filepath].data ELSE <<>>

\* _save_history: the file is created or overwritten
_save_history(fs, email, history) ==
    LET filepath == _get_user_file(email)
    IN  [f \in DOMAIN fs \cup {filepath} |->
            IF f = filepath THEN [kind |-> "list", data |-> history] ELSE fs[f]]

\* row.get(column, default)
row_get(row, column, default) ==
    IF column \in DOMAIN row THEN row[column] ELSE default

\* lines 59-66: the record of one row
card_record(row, source, timestamp) ==
    [ front     |-> row_get(row, "Front", <<>>),
      back      |-> row_get(row, "Back", <<>>),
      deck      |-> row_get(row, "Deck", DefaultDeck),
      tag       |-> row_get(row, "Tag", <<>>),
      source    |-> source,
      timestamp |-> timestamp ]

\* mutant: only the first card of the batch is recorded
add_cards_first_only(fs, email, cards_df, source, now) ==
    IF empty(cards_df)
        THEN fs
        ELSE _save_history(fs, email,
                 Append(_load_history(fs, email),
                        card_record(cards_df[1], source, now)))

\* mutant: the history is not read before the new records are written
add_cards_overwrite(fs, email, cards_df, source, now) ==
    IF empty(cards_df)
        THEN fs
        ELSE _save_history(fs, email,
                 [i \in 1..Len(cards_df) |->
                     card_record(cards_df[i], source, now)])

\* add_cards: the files after the call made at time now
add_cards(fs, email, cards_df, source, now) ==
    IF empty(cards_df)
        THEN fs
        ELSE _save_history(fs, email,
                 _load_history(fs, email)
                     \o [i \in 1..Len(cards_df) |->
                            card_record(cards_df[i], source, now)])

\* get_history
get_history(fs, email) == _load_history(fs, email)

\* the fronts of the user's history, the existing_questions of a round
existing_fronts(fs, email) ==
    LET history == get_history(fs, email)
    IN  [i \in 1..Len(history) |-> history[i].front]

----------------------------------------------------------------------------
(* Generation rounds: a batch is filtered against the ledger and what is   *)
(* left is appended to the ledger                                          *)

PipelineInit ==
    /\ WritersIdle
    /\ IndexIdle
    /\ DedupIdle
    /\ SyncIdle
    /\ FormatIdle
    /\ CallIdle
    /\ files = << >>
    /\ clock = 0

\* one round on a batch of candidates
PipelineRound ==
    /\ clock < MaxRounds
    /\ \E f \in SeqsUpTo(FrontTexts, MaxRoundBatch) :
          LET batch == DataFrame(f)
              kept  == deduplicate_cards(batch, existing_fronts(files, GuestEmail))
          IN  files' = add_cards(files, GuestEmail, kept, "Generated", clock)
    /\ clock' = clock + 1
    /\ UNCHANGED <<outside_ledger, call_vars>>

PipelineNext == PipelineRound

SpecPipeline == PipelineInit /\ [][PipelineNext]_vars

----------------------------------------------------------------------------
(* AnkiConnect: JSON values, the transport and its outcomes *)

\* JSON values, tagged by type; "absent" is a key the object does not hold
JNull == [t |-> "null", v |-> 0]
JAbsent == [t |-> "absent", v |-> 0]
JNum(n) == [t |-> "int", v |-> n]
JStr(x) == [t |-> "str", v |-> x]
JList(l) == [t |-> "list", v |-> l]

\* dict.get(key): None for a key the object does not hold
dict_get(value) == IF value = JAbsent THEN JNull ELSE value

\* dict.get(key, default)
dict_get_default(value, default) == IF value = JAbsent THEN default ELSE value

\* Python truth value of a JSON value
truthy(x) ==
    CASE x.t = "null" -> FALSE
      [] x.t = "absent" -> FALSE
      [] x.t = "int" -> x.v # 0
      [] x.t = "str" -> x.v # ""
      [] x.t = "list" -> x.v # <<>>

\* x is None
is_none(x) == x.t = "null"

\* the top-level error values a response may carry
ErrorValues == { JAbsent, JNull, JStr(""), JStr("deck was not found") }

\* the entries of the result list of addNotes: null, 0, or a note id
EntryValues == { JNull, JNum(0), JNum(1), JNum(5) }

\* requests.post raised: requests.exceptions.Timeout, ConnectionError,
\* ConnectTimeout (a subclass of both), or another exception
Raised(class) == [kind |-> class, body |-> NoOutcome.body]

PostExceptions ==
    { Raised("Timeout"), Raised("ConnectionError"), Raised("ConnectTimeout"),
      Raised("RequestException") }

\* requests.post returned a response with this body
Response(json, error, result) ==
    [ kind |-> "Response",
      body |-> [json |-> json, error |-> error, result |-> result] ]

\* a body response.json() cannot decode, and one that decodes to a value
\* that is not an object
BadBodies ==
    { Response("invalid", JAbsent, JAbsent), Response("other", JAbsent, JAbsent) }

\* the outcomes of a createDeck or addNote request
CardOutcomes ==
    PostExceptions \cup BadBodies
        \cup { Response("dict", e, r) : e \in ErrorValues, r \in {JNull, JNum(1)} }

\* the outcomes of an addNotes request
BatchOutcomes ==
    PostExceptions \cup BadBodies
        \cup { Response("dict", e, r) :
                   e \in ErrorValues,
                   r \in {JAbsent, JNull, JNum(1)}
                           \cup { JList(l) : l \in SeqsUpTo(EntryValues, MaxNotes) } }

\* the classes an exception class derives from
bases(class) ==
    CASE class = "ConnectTimeout" ->
             {"ConnectionError", "Timeout", "RequestException", "Exception"}
      [] class \in {"ConnectionError", "Timeout"} -> {"RequestException", "Exception"}
      [] OTHER -> {"Exception"}

\* an except clause names the class of the exception or one of its bases
clause_matches(clause, class) == clause = class \/ clause \in bases(class)

\* an except clause list catches the exception
is_caught(handlers, class) ==
    \E i \in 1..Len(handlers) : clause_matches(handlers[i], class)

\* the first clause of the list that catches the exception, "none" if none
first_handler(handlers, class) ==
    IF class = "none" \/ ~ is_caught(handlers, class)
        THEN "none"
        ELSE handlers[CHOOSE i \in 1..Len(handlers) :
                          /\ clause_matches(handlers[i], class)
                          /\ \A j \in 1..(i - 1) : ~ clause_matches(handlers[j], class)]

\* a try block ran to a return, or raised
Returned(value) == [raises |-> "none", value |-> value]
Raises(class) == [raises |-> class, value |-> FALSE]

\* response = requests.post(...); result = response.json(): the exception
\* these two lines raise, "none" when result is bound
post_json_raises(outcome) ==
    IF outcome.kind # "Response" THEN outcome.kind
    ELSE IF outcome.body.json = "invalid" THEN "ValueError"
    ELSE "none"

\* result.get(...) on a value that is not an object
get_raises(outcome) ==
    IF outcome.body.json = "other" THEN "AttributeError" ELSE "none"

----------------------------------------------------------------------------
(* push_card_to_anki *)

\* mutant: the createDeck request guarded against network errors only
DeckHandlersNetworkOnly == <<"Timeout", "ConnectionError">>

\* lines 87-92: the except clauses around the createDeck request
DeckHandlers == <<"Timeout", "ConnectionError", "Exception">>

\* lines 123-131: the except clauses around the addNote request
NoteHandlers == <<"Timeout", "ConnectionError", "Exception">>

\* line 86: the createDeck request; its response is not read
create_deck_try(outcome) ==
    IF outcome.kind # "Response" THEN Raises(outcome.kind) ELSE Returned(TRUE)

\* mutant: the error tested for truth instead of for None
no_error_falsy(outcome) == ~ truthy(dict_get(outcome.body.error))

\* line 119: result.get("error") is None
no_error(outcome) == is_none(dict_get(outcome.body.error))

\* lines 117-122: the body of the try block around the addNote request
add_note_try(outcome) ==
    IF post_json_raises(outcome) # "none" THEN Raises(post_json_raises(outcome))
    ELSE IF get_raises(outcome) # "none" THEN Raises(get_raises(outcome))
    ELSE Returned(no_error(outcome))

----------------------------------------------------------------------------
(* push_notes_to_anki *)

\* lines 250-252: the except clause around the addNotes request
BatchHandlers == <<"Exception">>

\* an entry of the errors list: a text, and the number formatted into it
Message(text, n) == [text |-> text, n |-> n]

RECURSIVE count_results_0(_, _, _, _)
\* mutant: the failure message labelled with enumerate's 0-based position
count_results_0(results, i, success_count, errors) ==
    IF i >= Len(results)
        THEN [success_count |-> success_count, errors |-> errors]
        ELSE IF truthy(results[i + 1])
            THEN count_results_0(results, i + 1, success_count + 1, errors)
            ELSE count_results_0(results, i + 1, success_count,
                     Append(errors, Message("Failed to add note", i)))

RECURSIVE count_results(_, _, _, _)
\* lines 242-246: the loop over enumerate(results), from position i on
\* (0-based, as enumerate counts)
count_results(results, i, success_count, errors) ==
    IF i >= Len(results)
        THEN [success_count |-> success_count, errors |-> errors]
        ELSE IF truthy(results[i + 1])
            THEN count_results(results, i + 1, success_count + 1, errors)
            ELSE count_results(results, i + 1, success_count,
                     Append(errors, Message("Failed to add note", i + 1)))

\* lines 223-248: the body of the try block
push_notes_try(outcome) ==
    IF post_json_raises(outcome) # "none" THEN Raises(post_json_raises(outcome))
    ELSE IF get_raises(outcome) # "none" THEN Raises(get_raises(outcome))
    ELSE IF truthy(dict_get(outcome.body.error))
        THEN Returned([ success_count |-> 0,
                        errors |-> <<Message(dict_get(outcome.body.error).v, 0)>> ])
    ELSE LET results == dict_get_default(outcome.body.result, JList(<<>>))
         IN  IF ~ truthy(results)
                 THEN Returned([success_count |-> 0, errors |-> <<>>])
                 ELSE IF results.t # "list"
                     THEN Raises("TypeError")
                     ELSE Returned(count_results(results.v, 0, 0, <<>>))

----------------------------------------------------------------------------
(* check_ankiconnect *)

HttpPrefix == <<"h", "t", "t", "p", ":", "/", "/">>
HttpsPrefix == <<"h", "t", "t", "p", "s", ":", "/", "/">>
Localhost == <<"l", "o", "c", "a", "l", "h", "o", "s", "t">>

\* line 21: the default of os.getenv("ANKI_CONNECT_URL", ...)
DefaultUrl == HttpPrefix \o Localhost \o <<":", "8", "7", "6", "5">>

\* the anki_url arguments: none, well-formed ones, and strings that miss the
\* scheme, carry another one, or carry it misspelt
UrlArguments ==
    { <<>>,
      DefaultUrl,
      HttpPrefix \o <<"a">>,
      HttpsPrefix \o <<"a", ".", "i", "o">>,
      <<"f", "t", "p", ":", "/", "/", "a">>,
      Localhost,
      <<"h", "t", "t", "p", ":", "/">> \o Localhost,
      <<"H", "T", "T", "P", ":", "/", "/", "a">> }

\* the environment: ANKI_CONNECT_URL unset, or set to a URL
Environments ==
    { [set |-> FALSE, value |-> <<>>],
      [set |-> TRUE, value |-> HttpsPrefix \o <<"a", ".", "i", "o">>],
      [set |-> TRUE, value |-> <<"f", "t", "p", ":", "/", "/", "a">>] }

\* os.getenv(name, default)
getenv(env, default) == IF env.set THEN env.value ELSE default

\* lines 20-21: the URL the function works on
effective_url(url, env) == IF url = <<>> THEN getenv(env, DefaultUrl) ELSE url

\* str.startswith
startswith(s, prefix) ==
    /\ Len(s) >= Len(prefix)
    /\ SubSeq(s, 1, Len(prefix)) = prefix

\* sub in s
contains(s, sub) ==
    \E i \in 0..(Len(s) - Len(sub)) : SubSeq(s, i + 1, i + Len(sub)) = sub

\* mutant: the scheme tested without its "://"
url_is_valid_loose(url) == startswith(url, <<"h", "t", "t", "p">>)

\* line 24: the URL structure test
url_is_valid(url) == startswith(url, HttpPrefix) \/ startswith(url, HttpsPrefix)

\* line 25
InvalidUrlRet ==
    [ ok |-> FALSE,
      message |-> CheckMessage("Invalid URL: Must start with http:// or https://",
                               JNull, <<>>) ]

\* the outcomes of the version request
VersionOutcomes ==
    PostExceptions \cup BadBodies
        \cup { Response("dict", e, r) :
                   e \in ErrorValues, r \in {JAbsent, JNull, JNum(0), JNum(6)} }

\* mutant: no clause for timeouts
CheckHandlersNoTimeout == <<"ConnectionError", "Exception">>

\* lines 37-43: the except clauses, in their order
CheckHandlers == <<"ConnectionError", "Timeout", "Exception">>

\* lines 28-36: the body of the try block
check_try(outcome, url) ==
    IF post_json_raises(outcome) # "none" THEN Raises(post_json_raises(outcome))
    ELSE IF get_raises(outcome) # "none" THEN Raises(get_raises(outcome))
    ELSE IF truthy(dict_get(outcome.body.result))
        THEN Returned([ ok |-> TRUE,
                        message |-> CheckMessage("AnkiConnect v{result} at {url}",
                                        dict_get(outcome.body.result), url) ])
        ELSE Returned([ ok |-> FALSE,
                        message |-> CheckMessage("AnkiConnect error: {error}",
                                        dict_get(outcome.body.error), <<>>) ])

\* lines 37-44: what the clause that catches the exception returns
check_except(handler, class, url) ==
    CASE handler = "ConnectionError" ->
             IF contains(url, Localhost)
                 THEN [ ok |-> FALSE,
                        message |-> CheckMessage(
                            "Cannot reach localhost:8765. Use ngrok tunnel for Cloud access.",
                            JNull, <<>>) ]
                 ELSE [ ok |-> FALSE,
                        message |-> CheckMessage("Cannot connect to {url}", JNull, url) ]
      [] handler = "Timeout" ->
             [ ok |-> FALSE,
               message |-> CheckMessage("AnkiConnect request timed out", JNull, <<>>) ]
      [] OTHER ->
             [ ok |-> FALSE,
               message |-> CheckMessage("AnkiConnect check failed: {e}",
                               JStr(class), <<>>) ]

----------------------------------------------------------------------------
(* Specification of the AnkiConnect calls: one invocation, any outcome of  *)
(* each request                                                            *)

SyncInit ==
    /\ WritersIdle
    /\ IndexIdle
    /\ DedupIdle
    /\ LedgerIdle
    /\ SyncIdle
    /\ FormatIdle

\* push_card_to_anki is called: the createDeck request is posted
PushCardCall ==
    /\ sync_pc = "idle"
    /\ sync_op' = "push_card"
    /\ requests' = Append(requests, "createDeck")
    /\ sync_pc' = "createDeck"
    /\ UNCHANGED <<notes, deck_outcome, note_outcome, card_ret, notes_ret,
                   sync_raised>>
    /\ UNCHANGED <<outside_sync, check_vars>>

\* the createDeck request resolves; unless its exception escapes, the
\* addNote request is posted
CreateDeckResolve ==
    /\ sync_pc = "createDeck"
    /\ \E outcome \in CardOutcomes :
          LET try == create_deck_try(outcome)
          IN  /\ deck_outcome' = outcome
              /\ IF try.raises # "none" /\ ~ is_caught(DeckHandlers, try.raises)
                     THEN /\ sync_raised' = try.raises
                          /\ sync_pc' = "raised"
                          /\ UNCHANGED requests
                     ELSE /\ requests' = Append(requests, "addNote")
                          /\ sync_pc' = "addNote"
                          /\ UNCHANGED sync_raised
    /\ UNCHANGED <<sync_op, notes, note_outcome, card_ret, notes_ret>>
    /\ UNCHANGED <<outside_sync, check_vars>>

\* the addNote request resolves and push_card_to_anki returns
AddNoteResolve ==
    /\ sync_pc = "addNote"
    /\ \E outcome \in CardOutcomes :
          LET try == add_note_try(outcome)
          IN  /\ note_outcome' = outcome
              /\ IF try.raises = "none"
                     THEN /\ card_ret' = try.value
                          /\ sync_pc' = "done"
                          /\ UNCHANGED sync_raised
                     ELSE IF is_caught(NoteHandlers, try.raises)
                         THEN /\ card_ret' = FALSE
                              /\ sync_pc' = "done"
                              /\ UNCHANGED sync_raised
                         ELSE /\ sync_raised' = try.raises
                              /\ sync_pc' = "raised"
                              /\ UNCHANGED card_ret
    /\ UNCHANGED <<sync_op, requests, notes, deck_outcome, notes_ret>>
    /\ UNCHANGED <<outside_sync, check_vars>>

\* push_notes_to_anki is called on n notes: the addNotes request is posted
PushNotesCall ==
    /\ sync_pc = "idle"
    /\ \E n \in 0..MaxNotes : notes' = n
    /\ sync_op' = "push_notes"
    /\ requests' = Append(requests, "addNotes")
    /\ sync_pc' = "addNotes"
    /\ UNCHANGED <<deck_outcome, note_outcome, card_ret, notes_ret, sync_raised>>
    /\ UNCHANGED <<outside_sync, check_vars>>

\* mutant: the addNotes request posted again after a failed attempt
AddNotesResolveRetry ==
    /\ sync_pc = "addNotes"
    /\ \E outcome \in BatchOutcomes :
          /\ note_outcome' = outcome
          /\ IF outcome.kind # "Response" /\ Len(requests) < 2
                 THEN /\ requests' = Append(requests, "addNotes")
                      /\ UNCHANGED <<sync_pc, notes_ret>>
                 ELSE /\ notes_ret' = [ success_count |-> 0, errors |-> <<>> ]
                      /\ sync_pc' = "done"
                      /\ UNCHANGED requests
    /\ UNCHANGED <<sync_op, notes, deck_outcome, card_ret, sync_raised>>
    /\ UNCHANGED <<outside_sync, check_vars>>

\* the addNotes request resolves and push_notes_to_anki returns
AddNotesResolve ==
    /\ sync_pc = "addNotes"
    /\ \E outcome \in BatchOutcomes :
          LET try == push_notes_try(outcome)
          IN  /\ note_outcome' = outcome
              /\ IF try.raises = "none"
                     THEN /\ notes_ret' = try.value
                          /\ sync_pc' = "done"
                          /\ UNCHANGED sync_raised
                     ELSE IF is_caught(BatchHandlers, try.raises)
                         THEN /\ notes_ret' =
                                     [ success_count |-> 0,
                                       errors |-> <<Message(try.raises, 0)>> ]
                              /\ sync_pc' = "done"
                              /\ UNCHANGED sync_raised
                         ELSE /\ sync_raised' = try.raises
                              /\ sync_pc' = "raised"
                              /\ UNCHANGED notes_ret
    /\ UNCHANGED <<sync_op, requests, notes, deck_outcome, card_ret>>
    /\ UNCHANGED <<outside_sync, check_vars>>

\* check_ankiconnect is called: an invalid URL is answered at once, for a
\* valid one the version request is posted
CheckCall ==
    /\ sync_pc = "idle"
    /\ sync_op' = "check"
    /\ \E url \in UrlArguments, env \in Environments :
          LET effective == effective_url(url, env)
          IN  /\ anki_url' = effective
              /\ IF ~ url_is_valid(effective)
                     THEN /\ check_ret' = InvalidUrlRet
                          /\ sync_pc' = "done"
                          /\ UNCHANGED requests
                     ELSE /\ requests' = Append(requests, "version")
                          /\ sync_pc' = "version"
                          /\ UNCHANGED check_ret
    /\ UNCHANGED <<notes, deck_outcome, note_outcome, card_ret, notes_ret,
                   sync_raised>>
    /\ UNCHANGED outside_sync

\* the version request resolves and check_ankiconnect returns
VersionResolve ==
    /\ sync_pc = "version"
    /\ \E outcome \in VersionOutcomes :
          LET try == check_try(outcome, anki_url)
              handler == first_handler(CheckHandlers, try.raises)
          IN  /\ note_outcome' = outcome
              /\ IF try.raises = "none"
                     THEN /\ check_ret' = try.value
                          /\ sync_pc' = "done"
                          /\ UNCHANGED sync_raised
                     ELSE IF handler # "none"
                         THEN /\ check_ret' = check_except(handler, try.raises, anki_url)
                              /\ sync_pc' = "done"
                              /\ UNCHANGED sync_raised
                         ELSE /\ sync_raised' = try.raises
                              /\ sync_pc' = "raised"
                              /\ UNCHANGED check_ret
    /\ UNCHANGED <<sync_op, requests, notes, deck_outcome, card_ret, notes_ret,
                   anki_url>>
    /\ UNCHANGED outside_sync

SyncNext ==
    \/ PushCardCall
    \/ CreateDeckResolve
    \/ AddNoteResolve
    \/ PushNotesCall
    \/ AddNotesResolve
    \/ CheckCall
    \/ VersionResolve

SpecSync == SyncInit /\ [][SyncNext]_vars

----------------------------------------------------------------------------
(* format_cards_for_ankiconnect *)

\* the values of a Tag cell: a string, None, or the NaN pandas puts where a
\* row has no value
TagStr(x) == [t |-> "str", v |-> x]
TagNone == [t |-> "none", v |-> <<>>]
TagNaN == [t |-> "nan", v |-> <<>>]

\* Python truth value of a cell: NaN is a non-zero float
cell_truthy(cell) ==
    CASE cell.t = "str" -> cell.v # <<>>
      [] cell.t = "none" -> FALSE
      [] cell.t = "nan" -> TRUE

\* str(cell)
cell_str(cell) ==
    CASE cell.t = "str" -> cell.v
      [] cell.t = "none" -> <<"N", "o", "n", "e">>
      [] cell.t = "nan" -> <<"n", "a", "n">>

\* the cards handed to the formatter: with a Tag column, whose cells are a
\* tag, the empty string, None or NaN, or without one
FormatRows(with_tag) ==
    IF with_tag
        THEN [ Front : {<<"Q">>, <<"R">>}, Back : {<<"A">>},
               Deck : {<<"D">>, <<"D", ":", ":", "E">>},
               Tag : {TagStr(<<"t">>), TagStr(<<>>), TagNone, TagNaN} ]
        ELSE [ Front : {<<"Q">>, <<"R">>}, Back : {<<"A">>},
               Deck : {<<"D">>, <<"D", ":", ":", "E">>} ]

FormatFrames ==
    UNION { SeqsUpTo(FormatRows(with_tag), MaxFormatRows) : with_tag \in BOOLEAN }

\* row[column] raises KeyError for a column the frame does not have
row_raises(row, columns) ==
    IF \E c \in columns : c \notin DOMAIN row THEN "KeyError" ELSE "none"

\* line 150: [str(row['Tag'])] if row['Tag'] else []
tags_of(row) == IF cell_truthy(row.Tag) THEN <<cell_str(row.Tag)>> ELSE <<>>

\* lines 139-151: the note of one row
note_of(row) ==
    [ deckName  |-> row.Deck,
      modelName |-> "Basic",
      fields    |-> [Front |-> row.Front, Back |-> row.Back],
      options   |-> [allowDuplicate |-> FALSE, duplicateScope |-> "deck"],
      tags      |-> tags_of(row) ]

\* lines 137-152: the notes, or the exception of the first row that raises
format_cards_for_ankiconnect(df) ==
    IF \E i \in 1..Len(df) :
           row_raises(df[i], {"Deck", "Front", "Back", "Tag"}) # "none"
        THEN Raises("KeyError")
        ELSE Returned([i \in 1..Len(df) |-> note_of(df[i])])

FormatInit ==
    /\ WritersIdle
    /\ IndexIdle
    /\ DedupIdle
    /\ LedgerIdle
    /\ SyncIdle
    /\ format_df \in FormatFrames
    /\ format_pc = "call"
    /\ format_ret = <<>>
    /\ format_raised = "none"

\* format_cards_for_ankiconnect is called on format_df
FormatCards ==
    /\ format_pc = "call"
    /\ LET try == format_cards_for_ankiconnect(format_df)
       IN  IF try.raises = "none"
               THEN /\ format_ret' = try.value
                    /\ format_pc' = "done"
                    /\ UNCHANGED format_raised
               ELSE /\ format_raised' = try.raises
                    /\ format_pc' = "raised"
                    /\ UNCHANGED format_ret
    /\ UNCHANGED format_df
    /\ UNCHANGED outside_format

FormatNext == FormatCards

SpecFormat == FormatInit /\ [][FormatNext]_vars

----------------------------------------------------------------------------
(* CardHistory, one call at a time, on a history file written earlier or   *)
(* damaged since                                                           *)

\* the decks of the cards: a deck, a sub-deck of it, and a deck whose name
\* merely begins with the name of the first
DeckNames ==
    { <<"A">>, <<"A", ":", ":", "H">>, <<"A", "P">> }

\* a frame of cards, one per deck of the list
LedgerFrame(decks) ==
    [i \in 1..Len(decks) |->
        [Index |-> i - 1, Front |-> <<"Q">>, Back |-> <<"B">>, Deck |-> decks[i]]]

\* the history files found before the call: none, one written by an earlier
\* add_cards, or one that is no longer a JSON list
LedgerFiles ==
    { add_cards(<< >>, GuestEmail, LedgerFrame(decks), "Generated", 0) :
          decks \in SeqsUpTo(DeckNames, MaxLedgerRecords) }
    \cup { (_get_user_file(GuestEmail) :> [kind |-> k, data |-> <<>>]) :
               k \in {"invalid_json", "undecodable", "object"} }

\* clear_history: the files after the call
clear_history(fs, email) ==
    LET filepath == _get_user_file(email)
    IN  [f \in DOMAIN fs \ {filepath} |-> fs[f]]

\* get_card_count
get_card_count(fs, email) == Len(_load_history(fs, email))

\* mutant: sub-decks recognised by the bare deck name as prefix
card_is_kept_prefix(card, deck_name, include_subdecks) ==
    IF include_subdecks
        THEN card.deck # deck_name /\ ~ startswith(card.deck, deck_name)
        ELSE card.deck # deck_name

\* lines 111-117: the condition of the two list comprehensions
card_is_kept(card, deck_name, include_subdecks) ==
    IF include_subdecks
        THEN /\ card.deck # deck_name
             /\ ~ startswith(card.deck, deck_name \o <<":", ":">>)
        ELSE card.deck # deck_name

\* mutant: the history is saved even when nothing was deleted
delete_deck_always_saves(fs, email, deck_name, include_subdecks) ==
    LET history == _load_history(fs, email)
        filtered_history ==
            SelectSeq(history,
                LAMBDA card : card_is_kept(card, deck_name, include_subdecks))
    IN  [ files |-> _save_history(fs, email, filtered_history),
          count |-> Len(history) - Len(filtered_history) ]

\* delete_deck: the files after the call and the count returned
delete_deck(fs, email, deck_name, include_subdecks) ==
    LET history == _load_history(fs, email)
        original_count == Len(history)
        filtered_history ==
            SelectSeq(history,
                LAMBDA card : card_is_kept(card, deck_name, include_subdecks))
        deleted_count == original_count - Len(filtered_history)
    IN  [ files |-> IF deleted_count > 0
                        THEN _save_history(fs, email, filtered_history)
                        ELSE fs,
          count |-> deleted_count ]

\* the exception add_cards lets through: that of _load_history, or that of
\* history.append on a history that is not a list
add_cards_raises(fs, email, cards_df) ==
    IF empty(cards_df) THEN "none"
    ELSE IF _load_raises(fs, email) # "none" THEN _load_raises(fs, email)
    ELSE IF _load_is_object(fs, email) THEN "AttributeError"
    ELSE "none"

LedgerInit ==
    /\ WritersIdle
    /\ IndexIdle
    /\ DedupIdle
    /\ SyncIdle
    /\ FormatIdle
    /\ files \in LedgerFiles
    /\ clock = 1
    /\ ledger_pc = "call"
    /\ ledger_op = "none"
    /\ ledger_args = NoLedgerArgs
    /\ files_before = files
    /\ ledger_read = <<>>
    /\ ledger_count = 0
    /\ ledger_raised = "none"

\* a call ends: with the exception it lets through, or with its effect
ledger_return(raises, new_files, read, count) ==
    /\ files_before' = files
    /\ IF raises # "none"
           THEN /\ ledger_raised' = raises
                /\ ledger_pc' = "raised"
                /\ UNCHANGED <<files, ledger_read, ledger_count>>
           ELSE /\ files' = new_files
                /\ ledger_read' = read
                /\ ledger_count' = count
                /\ ledger_pc' = "done"
                /\ UNCHANGED ledger_raised

\* a call of add_cards(email, cards_df)
add_cards_call(email, cards_df) ==
    /\ ledger_op' = "add_cards"
    /\ ledger_args' = [NoLedgerArgs EXCEPT !.email = email, !.cards = cards_df]
    /\ ledger_return(add_cards_raises(files, email, cards_df),
           add_cards(files, email, cards_df, "Generated", clock), <<>>, 0)
    /\ clock' = clock + 1
    /\ UNCHANGED outside_ledger

\* a call of delete_deck(email, deck_name, include_subdecks)
delete_deck_call(email, deck_name, include_subdecks) ==
    LET deleted == delete_deck(files, email, deck_name, include_subdecks)
    IN  /\ ledger_op' = "delete_deck"
        /\ ledger_args' = [NoLedgerArgs EXCEPT !.email = email,
                               !.deck_name = deck_name,
                               !.include_subdecks = include_subdecks]
        /\ ledger_return(_load_raises(files, email), deleted.files, <<>>,
               deleted.count)
        /\ UNCHANGED clock
        /\ UNCHANGED outside_ledger

\* a call of get_history(email) and of get_card_count(email)
get_history_call(email) ==
    /\ ledger_op' = "get_history"
    /\ ledger_args' = [NoLedgerArgs EXCEPT !.email = email]
    /\ ledger_return(_load_raises(files, email), files,
           get_history(files, email), get_card_count(files, email))
    /\ UNCHANGED clock
    /\ UNCHANGED outside_ledger

\* a call of clear_history(email)
clear_history_call(email) ==
    /\ ledger_op' = "clear_history"
    /\ ledger_args' = [NoLedgerArgs EXCEPT !.email = email]
    /\ ledger_return("none", clear_history(files, email), <<>>, 0)
    /\ UNCHANGED clock
    /\ UNCHANGED outside_ledger

\* add_cards(email, cards_df)
LedgerAddCards ==
    /\ ledger_pc = "call"
    /\ \E decks \in SeqsUpTo(DeckNames, MaxLedgerBatch) :
          add_cards_call(GuestEmail, LedgerFrame(decks))

\* delete_deck(email, deck_name, include_subdecks)
LedgerDeleteDeck ==
    /\ ledger_pc = "call"
    /\ \E deck_name \in DeckNames, include_subdecks \in BOOLEAN :
          delete_deck_call(GuestEmail, deck_name, include_subdecks)

\* get_history(email) and get_card_count(email)
LedgerRead ==
    /\ ledger_pc = "call"
    /\ get_history_call(GuestEmail)

LedgerNext ==
    \/ LedgerAddCards
    \/ LedgerDeleteDeck
    \/ LedgerRead

SpecLedger == LedgerInit /\ [][LedgerNext]_vars

----------------------------------------------------------------------------
(* CardHistory with two users: the history of one is on file and another   *)
(* user makes a call                                                       *)

\* the other users: one whose address differs from the first user's by a
\* character that _get_user_file replaces, one of another name
OtherEmails ==
    { <<"g", "@", "x", "_", "y">>, <<"h", "@", "x", ".", "y">> }

UsersAddCards ==
    /\ ledger_pc = "call"
    /\ \E email \in OtherEmails, decks \in SeqsUpTo(DeckNames, MaxLedgerBatch) :
          add_cards_call(email, LedgerFrame(decks))

UsersDeleteDeck ==
    /\ ledger_pc = "call"
    /\ \E email \in OtherEmails, deck_name \in DeckNames,
          include_subdecks \in BOOLEAN :
          delete_deck_call(email, deck_name, include_subdecks)

UsersClearHistory ==
    /\ ledger_pc = "call"
    /\ \E email \in OtherEmails : clear_history_call(email)

UsersNext ==
    \/ UsersAddCards
    \/ UsersDeleteDeck
    \/ UsersClearHistory

SpecUsers == LedgerInit /\ [][UsersNext]_vars

----------------------------------------------------------------------------
(* Two sessions of the same user in add_cards: each loads the history and  *)
(* appends its records to the list it loaded, then saves the list          *)

WritersInit ==
    /\ IndexIdle
    /\ DedupIdle
    /\ SyncIdle
    /\ FormatIdle
    /\ CallIdle
    /\ files = << >>
    /\ clock = 0
    /\ writer_pc = [w \in Writers |-> "start"]
    /\ writer_cards \in
           [Writers -> { LedgerFrame(decks) :
                             decks \in SeqsUpTo(DeckNames, MaxLedgerBatch) \ {<<>>} }]
    /\ writer_history = [w \in Writers |-> <<>>]

\* lines 55-67: the session loads the history and appends its records
WriterLoad(w) ==
    /\ writer_pc[w] = "start"
    /\ writer_history' =
           [writer_history EXCEPT ![w] =
               _load_history(files, GuestEmail)
                   \o [i \in 1..Len(writer_cards[w]) |->
                          card_record(writer_cards[w][i], "Generated", clock)]]
    /\ writer_pc' = [writer_pc EXCEPT ![w] = "loaded"]
    /\ clock' = clock + 1
    /\ UNCHANGED <<files, writer_cards>>
    /\ UNCHANGED outside_writers

\* line 69: the session saves its list
WriterSave(w) ==
    /\ writer_pc[w] = "loaded"
    /\ files' = _save_history(files, GuestEmail, writer_history[w])
    /\ writer_pc' = [writer_pc EXCEPT ![w] = "done"]
    /\ UNCHANGED <<clock, writer_cards, writer_history>>
    /\ UNCHANGED outside_writers

WritersNext ==
    \/ \E w \in Writers : WriterLoad(w)
    \/ \E w \in Writers : WriterSave(w)

SpecWriters == WritersInit /\ [][WritersNext]_vars

----------------------------------------------------------------------------
(* SimpleVectorStore: add_chunks and search, one call at a time, on an     *)
(* index filled earlier. get_embedding answers None, an empty list or a    *)
(* vector; a vector of small integers is itself as a float32 array, and    *)
(* the scores are computed in float32.                                     *)

\* line 20: the length under which a chunk is skipped
MinChunkLen == 50

\* a text of n characters
Text(c, n) == [i \in 1..n |-> c]

\* the texts of the chunks: one character short of the length kept, and
\* exactly of that length
ChunkTexts == { Text("s", MinChunkLen - 1), Text("t", MinChunkLen) }

\* what get_embedding answers for a chunk
ChunkEmbeddings == { JNull, JList(<<>>), JList(<<1, 0>>) }

\* the vectors already stored: two of one direction, one orthogonal to it,
\* one opposite to it, and one of norm zero
StoredVectors == { <<1, 0>>, <<2, 0>>, <<0, 1>>, <<-1, 0>>, <<0, 0>> }

\* what get_embedding answers for a query
QueryEmbeddings ==
    { JNull, JList(<<>>), JList(<<1, 0>>), JList(<<0, 0>>), JList(<<1, 1>>) }

\* the values of k
KValues == (-1)..MaxK

\* a metadata dict, as its set of items; {} is the empty set
Metadata(n) == { <<"page", n>> }

\* the metadata_list argument: left out, or one dict per chunk
MetadataLists(n) ==
    { [given |-> FALSE, list |-> <<>>],
      [given |-> TRUE, list |-> [i \in 1..n |-> Metadata(i)]] }

\* lines 15-16: the list left out, or empty, is replaced by [{}] * len(chunks)
metadata_or_default(texts, metadata_list) ==
    IF ~ metadata_list.given \/ metadata_list.list = <<>>
        THEN [i \in 1..Len(texts) |-> {}]
        ELSE metadata_list.list

\* mutant: a chunk is kept whatever its length
is_long_enough_always(text) == TRUE

\* line 20: the chunk is not skipped
is_long_enough(text) == ~ (Len(text) < MinChunkLen)

RECURSIVE add_chunks_from(_, _, _, _, _)
\* lines 18-28: the loop from chunk i on; embs[i] is the answer of
\* get_embedding for chunk i, should it be asked
add_chunks_from(i, store, texts, metadata_list, embs) ==
    IF i > Len(texts) THEN store
    ELSE IF ~ is_long_enough(texts[i])
        THEN add_chunks_from(i + 1, store, texts, metadata_list, embs)
    ELSE IF truthy(embs[i])
        THEN add_chunks_from(i + 1,
                 Append(store, [text |-> texts[i],
                                metadata |-> metadata_list[i],
                                embedding |-> embs[i].v]),
                 texts, metadata_list, embs)
    ELSE add_chunks_from(i + 1, store, texts, metadata_list, embs)

\* add_chunks: the chunks of the store after the call
add_chunks(store, texts, metadata_list, embs) ==
    add_chunks_from(1, store, texts, metadata_or_default(texts, metadata_list), embs)

\* the texts add_chunks hands to get_embedding, in order
add_chunks_calls(texts) == SelectSeq(texts, is_long_enough)

\* the stores found before the call: filled by one earlier add_chunks
StoredIndexes ==
    { add_chunks(<<>>, [i \in 1..Len(vs) |-> Text("t", MinChunkLen)],
                 [given |-> FALSE, list |-> <<>>],
                 [i \in 1..Len(vs) |-> JList(vs[i])]) :
          vs \in SeqsUpTo(StoredVectors, MaxStored) }

RECURSIVE dot(_, _)
\* np.dot
dot(u, v) == IF u = <<>> THEN 0 ELSE u[1] * v[1] + dot(Tail(u), Tail(v))

\* np.linalg.norm(v) == 0
norm_is_zero(v) == \A i \in 1..Len(v) : v[i] = 0

\* A float32 number is sign * m * 2^e: sign is 1, -1 or, for zero, 0; m is a
\* mantissa of Float32Precision bits, 0 for zero.  The numbers met here are
\* far from the ends of the exponent range, so no result overflows to
\* infinity or underflows.

\* the precision of dtype=np.float32, in bits
Float32Precision == 24

\* the least and the first too-large mantissa, and the limb of half size
MantissaMin == 2 ^ (Float32Precision - 1)
MantissaEnd == 2 ^ Float32Precision
Limb == 2 ^ (Float32Precision \div 2)

Float32Zero == [sign |-> 0, m |-> 0, e |-> 0]

\* a mantissa that reached MantissaEnd by rounding up is renormalised
renormalised(sign, m, e) ==
    IF m = MantissaEnd
        THEN [sign |-> sign, m |-> MantissaMin, e |-> e + 1]
        ELSE [sign |-> sign, m |-> m, e |-> e]

\* round to nearest, ties to even: m0 is the mantissa cut off, rem what was
\* cut off, of which half is one half unit
round_even(sign, m0, e, rem, half) ==
    IF rem > half \/ (rem = half /\ m0 % 2 = 1)
        THEN renormalised(sign, m0 + 1, e)
        ELSE [sign |-> sign, m |-> m0, e |-> e]

RECURSIVE shifted_up(_, _)
\* the positive integer n * 2^(-e) as [m, e] with m a full mantissa
shifted_up(m, e) ==
    IF m >= MantissaMin THEN [m |-> m, e |-> e] ELSE shifted_up(2 * m, e - 1)

\* np.float32 of an integer of fewer than Float32Precision bits: exact
float32_of(n) ==
    IF n = 0 THEN Float32Zero
    ELSE LET a == IF n < 0 THEN 0 - n ELSE n
             x == shifted_up(a, 0)
         IN  [sign |-> IF n < 0 THEN -1 ELSE 1, m |-> x.m, e |-> x.e]

\* the product of two mantissas as hi * MantissaEnd + lo, computed on limbs
\* so that no intermediate value exceeds the machine integer
mantissa_product(a, b) ==
    LET ah == a \div Limb
        al == a % Limb
        bh == b \div Limb
        bl == b % Limb
        mid == ah * bl + al * bh
        t == (mid % Limb) * Limb + al * bl
    IN  [hi |-> ah * bh + mid \div Limb + t \div MantissaEnd,
         lo |-> t % MantissaEnd]

\* x * y in float32
float32_mul(x, y) ==
    IF x.sign = 0 \/ y.sign = 0 THEN Float32Zero
    ELSE LET p == mantissa_product(x.m, y.m)
         IN  IF p.hi >= MantissaMin
                 THEN round_even(x.sign * y.sign, p.hi,
                                 x.e + y.e + Float32Precision,
                                 p.lo, MantissaMin)
                 ELSE round_even(x.sign * y.sign,
                                 2 * p.hi + p.lo \div MantissaMin,
                                 x.e + y.e + Float32Precision - 1,
                                 p.lo % MantissaMin, MantissaMin \div 2)

RECURSIVE long_division(_, _, _, _)
\* n more bits of the quotient q, r the remainder so far, d the divisor
long_division(r, d, n, q) ==
    IF n = 0 THEN [q |-> q, r |-> r]
    ELSE IF 2 * r >= d
        THEN long_division(2 * r - d, d, n - 1, 2 * q + 1)
        ELSE long_division(2 * r, d, n - 1, 2 * q)

\* x / y in float32, y not zero
float32_div(x, y) ==
    IF x.sign = 0 THEN Float32Zero
    ELSE LET big == x.m >= y.m
             qr == IF big
                       THEN long_division(x.m - y.m, y.m, Float32Precision - 1, 1)
                       ELSE long_division(x.m, y.m, Float32Precision, 0)
             e == IF big THEN x.e - y.e - (Float32Precision - 1)
                         ELSE x.e - y.e - Float32Precision
         IN  IF 2 * qr.r > y.m \/ (2 * qr.r = y.m /\ qr.q % 2 = 1)
                 THEN renormalised(x.sign * y.sign, qr.q + 1, e)
                 ELSE [sign |-> x.sign * y.sign, m |-> qr.q, e |-> e]

\* hi * MantissaEnd + lo of the first pair is at most that of the second
pair_leq(a, b) == a.hi < b.hi \/ (a.hi = b.hi /\ a.lo <= b.lo)

RECURSIVE root_bits(_, _, _)
\* the largest mantissa whose square is at most target, bit by bit
root_bits(target, m, bit) ==
    IF bit = 0 THEN m
    ELSE LET half_bit == bit \div 2
             try == m + half_bit
         IN  IF half_bit = 0 THEN m
             ELSE IF pair_leq(mantissa_product(try, try), target)
                 THEN root_bits(target, try, half_bit)
                 ELSE root_bits(target, m, half_bit)

RECURSIVE even_scaled(_, _)
\* the positive integer n as hi * 4^j, hi from MantissaMin \div 2 up to
\* MantissaEnd excluded
even_scaled(hi, j) ==
    IF hi >= MantissaMin \div 2 THEN [hi |-> hi, j |-> j]
    ELSE even_scaled(4 * hi, j + 1)

\* np.sqrt of the integer n >= 0 in float32, correctly rounded
float32_sqrt(n) ==
    IF n = 0 THEN Float32Zero
    ELSE LET s == even_scaled(n, 0)
             target == [hi |-> s.hi, lo |-> 0]
             m == root_bits(target, MantissaMin, MantissaMin)
             sq == mantissa_product(m, m)
             above == [hi |-> sq.hi + (sq.lo + m) \div MantissaEnd,
                       lo |-> (sq.lo + m) % MantissaEnd]
             e == 0 - s.j - (Float32Precision \div 2)
         IN  IF pair_leq(target, above)
                 THEN [sign |-> 1, m |-> m, e |-> e]
                 ELSE renormalised(1, m + 1, e)

\* x < y in float32
float32_less(x, y) ==
    LET smaller(a, b) == a.e < b.e \/ (a.e = b.e /\ a.m < b.m)
    IN  CASE x.sign < y.sign -> TRUE
          [] x.sign > y.sign -> FALSE
          [] x.sign = 1 -> smaller(x, y)
          [] x.sign = -1 -> smaller(y, x)
          [] OTHER -> FALSE

\* np.linalg.norm of a vector of small integers: the square root of its dot
\* product with itself, which is exact
norm(v) == float32_sqrt(dot(v, v))

\* mutant: the dot product is not divided by the norms
score_of_dot(q_vec, c_vec) == float32_of(dot(q_vec, c_vec))

\* lines 49-55: the score of a stored vector against the query vector
score_of(q_vec, c_vec) ==
    IF norm_is_zero(c_vec)
        THEN Float32Zero
        ELSE float32_div(float32_of(dot(q_vec, c_vec)),
                         float32_mul(norm(q_vec), norm(c_vec)))

\* a < b, for two scores
score_less(a, b) == float32_less(a, b)

\* an entry goes into a list sorted by decreasing score after every entry
\* whose score is not less than its own
insert_sorted(sorted, x) ==
    LET before == { j \in 1..Len(sorted) : ~ score_less(sorted[j].score, x.score) }
        p == Cardinality(before)
    IN  SubSeq(sorted, 1, p) \o <<x>> \o SubSeq(sorted, p + 1, Len(sorted))

RECURSIVE sort_reverse(_)
\* line 60: list.sort(key, reverse=True), which keeps the entries of equal
\* key in their order
sort_reverse(scores) ==
    IF scores = <<>> THEN <<>>
    ELSE insert_sorted(sort_reverse(SubSeq(scores, 1, Len(scores) - 1)),
                       scores[Len(scores)])

\* the slice l[:k]
slice_to(l, k) ==
    IF k >= 0
        THEN SubSeq(l, 1, IF k < Len(l) THEN k ELSE Len(l))
        ELSE SubSeq(l, 1, IF Len(l) + k > 0 THEN Len(l) + k ELSE 0)

\* mutant: the answer of get_embedding is not looked at
query_failed_never(query_emb) == FALSE

\* line 38: not query_emb
query_failed(query_emb) == ~ truthy(query_emb)

\* search: the chunks returned, each as its position in the store; np.array
\* raises TypeError on what is not a list of numbers
search(store, query_emb, k) ==
    IF store = <<>> THEN Returned(<<>>)
    ELSE IF query_failed(query_emb) THEN Returned(<<>>)
    ELSE IF query_emb.t # "list" THEN Raises("TypeError")
    ELSE IF norm_is_zero(query_emb.v) THEN Returned(<<>>)
    ELSE LET scores == [i \in 1..Len(store) |->
                           [score |-> score_of(query_emb.v, store[i].embedding),
                            chunk |-> i]]
             top == slice_to(sort_reverse(scores), k)
         IN  Returned([j \in 1..Len(top) |-> top[j].chunk])

\* the query text
QueryText == <<"q">>

\* line 37: the texts search hands to get_embedding
search_calls(store, query) == IF store = <<>> THEN <<>> ELSE <<query>>

IndexInit ==
    /\ WritersIdle
    /\ DedupIdle
    /\ LedgerIdle
    /\ SyncIdle
    /\ FormatIdle
    /\ chunks \in StoredIndexes
    /\ index_pc = "call"
    /\ index_op = "none"
    /\ index_args = NoIndexArgs
    /\ chunks_before = chunks
    /\ embed_calls = <<>>
    /\ index_ret = <<>>
    /\ index_raised = "none"

\* a call of add_chunks(chunks, metadata_list) with these answers of
\* get_embedding
add_chunks_call(texts, metadata_list, embs) ==
    /\ index_args' = [NoIndexArgs EXCEPT !.texts = texts,
                          !.metadata_list = metadata_list, !.embs = embs]
    /\ chunks' = add_chunks(chunks, texts, metadata_list, embs)
    /\ embed_calls' = add_chunks_calls(texts)
    /\ index_op' = "add_chunks"
    /\ index_pc' = "done"
    /\ chunks_before' = chunks
    /\ UNCHANGED <<index_ret, index_raised>>
    /\ UNCHANGED outside_index

\* mutant: the sort by score is made on the chunks of the store themselves
search_call_sorts(query_emb, k) ==
    /\ index_args' = [NoIndexArgs EXCEPT !.query_emb = query_emb, !.k = k]
    /\ LET out == search(chunks, query_emb, k)
           all == search(chunks, query_emb, Len(chunks))
       IN  /\ IF out.raises # "none"
                  THEN /\ index_raised' = out.raises
                       /\ index_pc' = "raised"
                       /\ UNCHANGED index_ret
                  ELSE /\ index_ret' = out.value
                       /\ index_pc' = "done"
                       /\ UNCHANGED index_raised
           /\ chunks' = IF all.raises = "none" /\ Len(all.value) = Len(chunks)
                            THEN [j \in 1..Len(chunks) |-> chunks[all.value[j]]]
                            ELSE chunks
    /\ embed_calls' = search_calls(chunks, QueryText)
    /\ index_op' = "search"
    /\ chunks_before' = chunks
    /\ UNCHANGED outside_index

\* a call of search(query, k) with this answer of get_embedding
search_call(query_emb, k) ==
    /\ index_args' = [NoIndexArgs EXCEPT !.query_emb = query_emb, !.k = k]
    /\ LET out == search(chunks, query_emb, k)
       IN  IF out.raises # "none"
               THEN /\ index_raised' = out.raises
                    /\ index_pc' = "raised"
                    /\ UNCHANGED index_ret
               ELSE /\ index_ret' = out.value
                    /\ index_pc' = "done"
                    /\ UNCHANGED index_raised
    /\ embed_calls' = search_calls(chunks, QueryText)
    /\ index_op' = "search"
    /\ chunks_before' = chunks
    /\ UNCHANGED chunks
    /\ UNCHANGED outside_index

\* mutant: clear() leaves the chunks where they are
clear_call_keeps ==
    /\ index_op' = "clear"
    /\ index_pc' = "done"
    /\ chunks_before' = chunks
    /\ index_args' = NoIndexArgs
    /\ UNCHANGED <<chunks, embed_calls, index_ret, index_raised>>
    /\ UNCHANGED outside_index

\* a call of clear()
clear_call ==
    /\ chunks' = <<>>
    /\ index_op' = "clear"
    /\ index_pc' = "done"
    /\ chunks_before' = chunks
    /\ index_args' = NoIndexArgs
    /\ UNCHANGED <<embed_calls, index_ret, index_raised>>
    /\ UNCHANGED outside_index

\* the answers of get_embedding may be anything for the chunks it is not
\* asked about: they are taken as None
unasked_are_none(texts, embs) ==
    \A i \in 1..Len(texts) : ~ is_long_enough(texts[i]) => embs[i] = JNull

\* add_chunks(chunks, metadata_list)
IndexAddChunks ==
    /\ index_pc = "call"
    /\ \E texts \in SeqsUpTo(ChunkTexts, MaxChunks) :
       \E metadata_list \in MetadataLists(Len(texts)) :
       \E embs \in [1..Len(texts) -> ChunkEmbeddings] :
          /\ unasked_are_none(texts, embs)
          /\ add_chunks_call(texts, metadata_list, embs)

\* search(query, k)
IndexSearch ==
    /\ index_pc = "call"
    /\ \E query_emb \in QueryEmbeddings, k \in KValues :
          search_call(query_emb, k)

\* clear()
IndexClear ==
    /\ index_pc = "call"
    /\ clear_call

IndexNext ==
    \/ IndexAddChunks
    \/ IndexSearch
    \/ IndexClear

SpecIndex == IndexInit /\ [][IndexNext]_vars

----------------------------------------------------------------------------
(* SimpleVectorStore over a session: calls one after the other on a store  *)
(* that starts empty; every chunk embeds to the same vector or fails       *)

SessionEmbeddings == { JNull, JList(<<1, 0>>) }

SessionInit ==
    /\ WritersIdle
    /\ DedupIdle
    /\ LedgerIdle
    /\ SyncIdle
    /\ FormatIdle
    /\ chunks = <<>>
    /\ index_pc = "call"
    /\ index_op = "none"
    /\ index_args = NoIndexArgs
    /\ chunks_before = <<>>
    /\ embed_calls = <<>>
    /\ index_ret = <<>>
    /\ index_raised = "none"

\* the previous call has returned
SessionReady == index_pc \in {"call", "done"}

SessionAddChunks ==
    /\ SessionReady
    /\ \E texts \in SeqsUpTo(ChunkTexts, MaxChunks) :
       \E embs \in [1..Len(texts) -> SessionEmbeddings] :
          /\ Len(chunks) + Len(texts) <= MaxStored
          /\ unasked_are_none(texts, embs)
          /\ add_chunks_call(texts, [given |-> FALSE, list |-> <<>>], embs)

SessionSearch ==
    /\ SessionReady
    /\ \E query_emb \in QueryEmbeddings, k \in KValues :
          search_call(query_emb, k)

SessionClear ==
    /\ SessionReady
    /\ clear_call

SessionNext ==
    \/ SessionAddChunks
    \/ SessionSearch
    \/ SessionClear

SpecSession == SessionInit /\ [][SessionNext]_vars

----------------------------------------------------------------------------
(* Properties of deduplicate_cards *)

\* the comparison key of the data model: lowercase(trim(front))
claim_key(q) == lower(strip(q))

\* the keys of the entries of a list of questions
keys_of(questions) == { claim_key(questions[i]) : i \in 1..Len(questions) }

RECURSIVE is_subsequence(_, _)
\* a is b with some elements left out
is_subsequence(a, b) ==
    IF a = <<>> THEN TRUE
    ELSE IF b = <<>> THEN FALSE
    ELSE IF Head(a) = Head(b) THEN is_subsequence(Tail(a), Tail(b))
    ELSE is_subsequence(a, Tail(b))

\* row i of the batch is the first of the batch with its key
first_of_its_key(df, i) ==
    \A j \in 1..(i - 1) : claim_key(df[j].Front) # claim_key(df[i].Front)

\* row r is one of the rows of df
row_in(r, df) == \E i \in 1..Len(df) : df[i] = r

\* C1: whatever the batch and the existing_questions list, the empty list
\* included, no two rows of the result of deduplicate_cards have the same
\* key lowercase(trim(Front)).
C1_NoDuplicateKept ==
    dedup_pc = "done" =>
        \A i, j \in 1..Len(dedup_result) :
            i < j => claim_key(dedup_result[i].Front)
                         # claim_key(dedup_result[j].Front)

\* C2: with a non-empty existing_questions list, no row of the result has
\* the key of an entry of existing_questions.
C2_NoHistoryMatchKept ==
    (dedup_pc = "done" /\ existing_questions # <<>>) =>
        \A i \in 1..Len(dedup_result) :
            claim_key(dedup_result[i].Front) \notin keys_of(existing_questions)

\* C2 witness: a candidate that matches a history entry only up to case or
\* surrounding whitespace was dropped, and another candidate was kept.
C2_Witness ==
    /\ dedup_pc = "done"
    /\ existing_questions # <<>>
    /\ dedup_result # <<>>
    /\ \E i \in 1..Len(new_cards) :
          /\ \A k \in 1..Len(existing_questions) :
                 new_cards[i].Front # existing_questions[k]
          /\ claim_key(new_cards[i].Front) \in keys_of(existing_questions)
          /\ ~ row_in(new_cards[i], dedup_result)

\* C3: the result of deduplicate_cards is a subsequence of the batch: no
\* longer than it, made of its rows unmodified, in the order of the batch.
C3_ResultIsSubsequence ==
    dedup_pc = "done" =>
        /\ Len(dedup_result) <= Len(new_cards)
        /\ is_subsequence(dedup_result, new_cards)
        /\ (new_cards = <<>> => dedup_result = <<>>)

\* C3 witness: some rows were dropped and at least two were kept.
C3_Witness ==
    /\ dedup_pc = "done"
    /\ Len(dedup_result) >= 2
    /\ Len(dedup_result) < Len(new_cards)

\* C4: a row whose key is neither the key of an entry of existing_questions
\* nor the key of an earlier row of the batch is kept, and the first row
\* of the result with a given key is the first row of the batch with it.
C4_NeverOverDrops ==
    dedup_pc = "done" =>
        /\ \A i \in 1..Len(new_cards) :
               ( /\ claim_key(new_cards[i].Front) \notin keys_of(existing_questions)
                 /\ first_of_its_key(new_cards, i) )
               => row_in(new_cards[i], dedup_result)
        /\ \A i \in 1..Len(dedup_result) :
               first_of_its_key(dedup_result, i) =>
                   \E j \in 1..Len(new_cards) :
                       /\ new_cards[j] = dedup_result[i]
                       /\ first_of_its_key(new_cards, j)

\* C4 witness: of two new rows with the same key, against a non-empty
\* history, the first was kept and the second dropped.
C4_Witness ==
    /\ dedup_pc = "done"
    /\ existing_questions # <<>>
    /\ \E i, j \in 1..Len(new_cards) :
          /\ i < j
          /\ claim_key(new_cards[i].Front) = claim_key(new_cards[j].Front)
          /\ claim_key(new_cards[i].Front) \notin keys_of(existing_questions)
          /\ row_in(new_cards[i], dedup_result)
          /\ ~ row_in(new_cards[j], dedup_result)

\* no two rows of df have the same key
keys_distinct(df) ==
    \A i, j \in 1..Len(df) :
        i < j => claim_key(df[i].Front) # claim_key(df[j].Front)

\* C5: with an empty existing_questions list and a batch whose keys are
\* pairwise different, deduplicate_cards returns the batch as it is.
C5_EmptyHistoryKeepsAll ==
    (dedup_pc = "done" /\ existing_questions = <<>> /\ keys_distinct(new_cards))
        => dedup_result = new_cards

\* C5 witness: a batch of two different questions, no history, all kept.
C5_Witness ==
    /\ dedup_pc = "done"
    /\ existing_questions = <<>>
    /\ Len(new_cards) >= 2
    /\ keys_distinct(new_cards)
    /\ dedup_result = new_cards

----------------------------------------------------------------------------
(* Properties of the generation rounds *)

\* C6: from an empty ledger, after any number of rounds that filter a batch
\* with deduplicate_cards against the ledger's fronts and append what is
\* kept with add_cards, no two records of the ledger have the same key
\* lowercase(trim(front)).
C6_LedgerKeysUnique ==
    LET history == get_history(files, GuestEmail)
    IN  \A i, j \in 1..Len(history) :
            i < j => claim_key(history[i].front) # claim_key(history[j].front)

----------------------------------------------------------------------------
(* Properties of the AnkiConnect calls *)

\* the request completed with a JSON object whose error is null
store_reports_no_error(outcome) ==
    /\ outcome.kind = "Response"
    /\ outcome.body.json = "dict"
    /\ outcome.body.error \in {JNull, JAbsent}

\* the positions (1-based) of the truthy and of the falsy entries of a list
truthy_positions(l) == { i \in 1..Len(l) : truthy(l[i]) }
falsy_positions(l) == { i \in 1..Len(l) : ~ truthy(l[i]) }

\* C7: when the addNotes response has no top-level error and its result is
\* a list, success_count is the number of truthy entries of the list and
\* errors holds exactly one "Failed to add note i" per falsy entry, i its
\* 1-based position, in increasing order of position.
C7_PerNoteAccounting ==
    ( /\ sync_op = "push_notes"
      /\ sync_pc \in {"done", "raised"}
      /\ store_reports_no_error(note_outcome)
      /\ note_outcome.body.result.t = "list" )
    => LET l == note_outcome.body.result.v
           errors == notes_ret.errors
       IN  /\ sync_pc = "done"
           /\ notes_ret.success_count = Cardinality(truthy_positions(l))
           /\ Len(errors) = Cardinality(falsy_positions(l))
           /\ \A k \in 1..Len(errors) :
                  /\ errors[k].text = "Failed to add note"
                  /\ errors[k].n \in falsy_positions(l)
           /\ \A j, k \in 1..Len(errors) : j < k => errors[j].n < errors[k].n

\* C7 witness: the result list [1, 0, 5] gave (2, ["Failed to add note 2"]).
C7_Witness ==
    /\ sync_op = "push_notes"
    /\ sync_pc = "done"
    /\ note_outcome = Response("dict", JNull, JList(<<JNum(1), JNum(0), JNum(5)>>))
    /\ notes_ret = [ success_count |-> 2,
                     errors |-> <<Message("Failed to add note", 2)>> ]

\* C8: if the addNotes request raises (connection error, timeout,
\* unparsable response) or the response carries a top-level error that is
\* not null, push_notes_to_anki returns success_count 0 and an errors list
\* of exactly one entry, whatever the per-note results, and raises nothing.
C8_BatchFailureAllOrNothing ==
    ( /\ sync_op = "push_notes"
      /\ sync_pc \in {"done", "raised"}
      /\ \/ note_outcome.kind # "Response"
         \/ note_outcome.body.json = "invalid"
         \/ /\ note_outcome.body.json = "dict"
            /\ note_outcome.body.error \notin {JNull, JAbsent} )
    => /\ sync_pc = "done"
       /\ sync_raised = "none"
       /\ notes_ret.success_count = 0
       /\ Len(notes_ret.errors) = 1

\* C9: push_card_to_anki returns True exactly when the addNote request
\* completed and the response reports a null error; every failure of the
\* request gives False, and no exception reaches the caller.
C9_TrueIffNoError ==
    (sync_op = "push_card" /\ sync_pc \in {"done", "raised"})
    => /\ sync_raised = "none"
       /\ card_ret <=> store_reports_no_error(note_outcome)

\* C9 witness: an addNote response with a note id and a null error gave True.
C9_Witness ==
    /\ sync_op = "push_card"
    /\ sync_pc = "done"
    /\ note_outcome = Response("dict", JNull, JNum(1))
    /\ card_ret

\* C10: in push_card_to_anki the createDeck request is posted first, and
\* whatever it comes to, the addNote request is then posted exactly once
\* and alone decides the boolean returned.
C10_DeckFailureNotFatal ==
    sync_op = "push_card" =>
        /\ sync_pc = "createDeck" => requests = <<"createDeck">>
        /\ sync_pc \in {"addNote", "done", "raised"} =>
               /\ deck_outcome # NoOutcome
               /\ requests = <<"createDeck", "addNote">>
        /\ sync_pc \in {"done", "raised"} =>
               /\ sync_pc = "done"
               /\ note_outcome # NoOutcome
               /\ card_ret = store_reports_no_error(note_outcome)

\* C10 witness: the createDeck request failed and the card was pushed.
C10_Witness ==
    /\ sync_op = "push_card"
    /\ sync_pc = "done"
    /\ deck_outcome.kind # "Response"
    /\ requests = <<"createDeck", "addNote">>
    /\ card_ret

----------------------------------------------------------------------------
(* Properties of check_ankiconnect and of the request discipline *)

\* the endpoint begins with "http://" or with "https://"
has_http_scheme(url) ==
    \/ /\ Len(url) >= 7
       /\ [i \in 1..7 |-> url[i]] = <<"h", "t", "t", "p", ":", "/", "/">>
    \/ /\ Len(url) >= 8
       /\ [i \in 1..8 |-> url[i]] = <<"h", "t", "t", "p", "s", ":", "/", "/">>

probe_class(outcome) ==
    IF outcome.kind \in {"ConnectionError", "ConnectTimeout"} THEN "connection"
    ELSE IF outcome.kind = "Timeout" THEN "timeout"
    ELSE IF outcome.kind # "Response" \/ outcome.body.json # "dict" THEN "malformed"
    ELSE IF truthy(dict_get(outcome.body.result)) THEN "version"
    ELSE "error"

\* the class a diagnostic text belongs to
text_class(text) ==
    CASE text = "Cannot reach localhost:8765. Use ngrok tunnel for Cloud access."
             -> "connection"
      [] text = "Cannot connect to {url}" -> "connection"
      [] text = "AnkiConnect request timed out" -> "timeout"
      [] text = "AnkiConnect check failed: {e}" -> "malformed"
      [] text = "AnkiConnect error: {error}" -> "error"
      [] text = "AnkiConnect v{result} at {url}" -> "version"
      [] OTHER -> "invalid"

phase(pc) ==
    CASE pc = "idle" -> "idle"
      [] pc \in {"version", "createDeck", "addNote", "addNotes"} -> "connecting"
      [] OTHER -> "finished"

\* the requests an invocation has posted when it is in a given place
requests_at(op, pc) ==
    CASE op = "check" /\ pc = "version" -> {<<"version">>}
      [] op = "check" -> {<<>>, <<"version">>}
      [] op = "push_card" /\ pc = "createDeck" -> {<<"createDeck">>}
      [] op = "push_card" -> {<<"createDeck", "addNote">>}
      [] op = "push_notes" -> {<<"addNotes">>}
      [] OTHER -> {<<>>}

\* C13: an invocation goes from idle to connecting to finished, never back;
\* it posts each of its requests once (version at most once; createDeck
\* then addNote; addNotes), and a finished invocation posts nothing more.
C13_SingleAttempt ==
    /\ [](requests \in requests_at(sync_op, sync_pc))
    /\ [][ /\ phase(sync_pc) = "connecting" => phase(sync_pc') # "idle"
           /\ phase(sync_pc) = "finished" =>
                  /\ sync_pc' = sync_pc
                  /\ requests' = requests
           /\ Len(requests') <= Len(requests) + 1
           /\ sync_pc' = sync_pc => requests' = requests ]_vars

\* C13 witness: push_notes_to_anki finished after a failed request, with
\* one addNotes request posted.
C13_Witness ==
    /\ sync_op = "push_notes"
    /\ sync_pc = "done"
    /\ note_outcome.kind = "ConnectionError"
    /\ requests = <<"addNotes">>

----------------------------------------------------------------------------
(* Properties of format_cards_for_ankiconnect *)

\* the row has no tag: no Tag column, or no value in it
tag_absent(row) == "Tag" \notin DOMAIN row \/ row.Tag \in {TagNone, TagNaN}

\* C14: the formatter gives one note per card, in the order of the cards;
\* a card without a Tag gives an empty tag list and no error, a card with
\* a non-empty Tag gives the list of that one tag.
C14_OneNotePerCard ==
    format_pc \in {"done", "raised"} =>
        /\ format_pc = "done"
        /\ Len(format_ret) = Len(format_df)
        /\ \A i \in 1..Len(format_df) :
               /\ format_ret[i].deckName = format_df[i].Deck
               /\ format_ret[i].fields.Front = format_df[i].Front
               /\ format_ret[i].fields.Back = format_df[i].Back
               /\ tag_absent(format_df[i]) => format_ret[i].tags = <<>>
               /\ (~ tag_absent(format_df[i]) /\ format_df[i].Tag.v # <<>>)
                      => format_ret[i].tags = <<format_df[i].Tag.v>>

----------------------------------------------------------------------------
(* Properties of CardHistory *)

\* the decks of a history, in order
decks_of(history) == [i \in 1..Len(history) |-> history[i].deck]

\* deck is a sub-deck of deck_name: deck_name, then "::", then anything
is_subdeck(deck, deck_name) ==
    LET n == Len(deck_name)
    IN  /\ Len(deck) >= n + 2
        /\ SubSeq(deck, 1, n) = deck_name
        /\ deck[n + 1] = ":"
        /\ deck[n + 2] = ":"

\* the record is one the call is to remove
to_remove(card, args) ==
    \/ card.deck = args.deck_name
    \/ args.include_subdecks /\ is_subdeck(card.deck, args.deck_name)

\* C15: delete_deck removes exactly the records whose deck equals deck_name
\* and, only when include_subdecks is true, those whose deck starts with
\* deck_name + "::"; the other records are kept in their order, a deck that
\* merely begins with deck_name among them; the count returned is the number
\* of records removed.
C15_DeleteRemovesExactly ==
    (ledger_op = "delete_deck" /\ ledger_pc = "done") =>
        LET before == get_history(files_before, GuestEmail)
            after == get_history(files, GuestEmail)
        IN  /\ after = SelectSeq(before,
                           LAMBDA card : ~ to_remove(card, ledger_args))
            /\ ledger_count =
                   Cardinality({i \in 1..Len(before) :
                                    to_remove(before[i], ledger_args)})

\* delete_deck("A", True) on the decks A, A::H and AP removed the first two,
\* kept AP and returned 2
C15_Witness ==
    /\ ledger_op = "delete_deck"
    /\ ledger_pc = "done"
    /\ ledger_args.deck_name = <<"A">>
    /\ ledger_args.include_subdecks
    /\ decks_of(get_history(files_before, GuestEmail))
           = << <<"A">>, <<"A", ":", ":", "H">>, <<"A", "P">> >>
    /\ decks_of(get_history(files, GuestEmail)) = << <<"A", "P">> >>
    /\ ledger_count = 2

\* C16: after add_cards the history is the previous history, unchanged and
\* in the same order, followed by one new record per card of the batch in
\* batch order; an empty batch leaves the history file as it was.
C16_AppendOnly ==
    (ledger_op = "add_cards" /\ ledger_pc = "done") =>
        LET before == get_history(files_before, GuestEmail)
            after == get_history(files, GuestEmail)
            cards == ledger_args.cards
        IN  /\ Len(after) = Len(before) + Len(cards)
            /\ SubSeq(after, 1, Len(before)) = before
            /\ \A i \in 1..Len(cards) :
                  /\ after[Len(before) + i].front = cards[i].Front
                  /\ after[Len(before) + i].back = cards[i].Back
                  /\ after[Len(before) + i].deck = cards[i].Deck
            /\ cards = <<>> => files = files_before

\* two cards of different decks were appended to a history of two records
C16_Witness ==
    /\ ledger_op = "add_cards"
    /\ ledger_pc = "done"
    /\ Len(get_history(files_before, GuestEmail)) = 2
    /\ Len(ledger_args.cards) = 2
    /\ ledger_args.cards[1].Deck # ledger_args.cards[2].Deck
    /\ Len(get_history(files, GuestEmail)) = 4

\* the history file the call found is not a JSON list
file_is_corrupt(fs, email) ==
    /\ _get_user_file(email) \in DOMAIN fs
    /\ fs[_get_user_file(email)].kind # "list"

\* C17: when the history file is unreadable or holds invalid content, no
\* call of get_history, get_card_count, add_cards or delete_deck raises, and
\* the reads return the empty history and the count 0.
C17_FailOpen ==
    (ledger_pc \in {"done", "raised"} /\ file_is_corrupt(files_before, GuestEmail)) =>
        /\ ledger_pc = "done"
        /\ ledger_op = "get_history" => ledger_read = <<>> /\ ledger_count = 0
        /\ ledger_op = "delete_deck" => ledger_count = 0

----------------------------------------------------------------------------
(* Properties of SimpleVectorStore *)

\* the answer of get_embedding is a vector
is_vector(emb) == emb.t = "list" /\ Len(emb.v) > 0

\* the positions of the chunks add_chunks is to ingest
ingested(texts, embs) ==
    { i \in 1..Len(texts) : Len(texts[i]) >= 50 /\ is_vector(embs[i]) }

\* the n-th position of a set of positions, in increasing order
nth_of(positions, n) ==
    CHOOSE i \in positions : Cardinality({ j \in positions : j < i }) = n - 1

\* C18: after add_chunks the store holds what it held before, followed by
\* exactly the input chunks of at least 50 characters whose embedding call
\* returned a vector, in input order; get_embedding is called for no chunk
\* under 50 characters, and a chunk whose embedding failed is dropped while
\* the chunks after it are still ingested.
C18_IngestsLongEmbedded ==
    (index_op = "add_chunks" /\ index_pc = "done") =>
        LET texts == index_args.texts
            embs == index_args.embs
            kept == ingested(texts, embs)
            n == Len(chunks_before)
        IN  /\ Len(chunks) = n + Cardinality(kept)
            /\ SubSeq(chunks, 1, n) = chunks_before
            /\ \A j \in 1..Cardinality(kept) :
                  /\ chunks[n + j].text = texts[nth_of(kept, j)]
                  /\ chunks[n + j].embedding = embs[nth_of(kept, j)].v
            /\ \A c \in 1..Len(embed_calls) : Len(embed_calls[c]) >= 50
            /\ Len(embed_calls)
                   = Cardinality({ i \in 1..Len(texts) : Len(texts[i]) >= 50 })

\* the embedding of the first chunk failed and the second chunk was added to
\* a store that already held a chunk
C18_Witness ==
    /\ index_op = "add_chunks"
    /\ index_pc = "done"
    /\ Len(chunks_before) > 0
    /\ Len(index_args.texts) = 2
    /\ Len(index_args.texts[1]) >= 50
    /\ ~ is_vector(index_args.embs[1])
    /\ is_vector(index_args.embs[2])
    /\ Len(chunks) = Len(chunks_before) + 1
    /\ Len(embed_calls) = 2

\* C19: search on an empty store, or with a query whose embedding failed,
\* returns the empty list and raises nothing, whatever the query and k.
C19_EmptyOrFailedQuery ==
    (/\ index_op = "search"
     /\ index_pc \in {"done", "raised"}
     /\ chunks_before = <<>> \/ ~ is_vector(index_args.query_emb)) =>
        /\ index_pc = "done"
        /\ index_ret = <<>>

\* a query whose embedding failed was searched in a store of three chunks,
\* with k = 2
C19_Witness ==
    /\ index_op = "search"
    /\ index_pc = "done"
    /\ Len(chunks_before) = 3
    /\ index_args.query_emb = JNull
    /\ index_args.k = 2
    /\ index_ret = <<>>

\* the score of chunk i of the store against the query vector
cosine(store, q_vec, i) == score_of(q_vec, store[i].embedding)

\* chunk j comes before chunk i: its score is greater, or the scores are
\* equal and it was inserted first
comes_before(store, q_vec, j, i) ==
    \/ score_less(cosine(store, q_vec, i), cosine(store, q_vec, j))
    \/ /\ ~ score_less(cosine(store, q_vec, j), cosine(store, q_vec, i))
       /\ j < i

\* the number of chunks that come before chunk i
rank(store, q_vec, i) ==
    Cardinality({ j \in 1..Len(store) : comes_before(store, q_vec, j, i) })

\* C20: on a store of n > 0 chunks, for a query whose embedding is a vector
\* and k >= 0, search returns the first min(k, n) chunks of the store in
\* decreasing order of score, chunks of equal score in insertion order; each
\* is a chunk of the store and none comes twice.
C20_TopKRanking ==
    (/\ index_op = "search"
     /\ index_pc \in {"done", "raised"}
     /\ chunks_before # <<>>
     /\ is_vector(index_args.query_emb)
     /\ index_args.k >= 0) =>
        LET n == Len(chunks_before)
            m == IF index_args.k < n THEN index_args.k ELSE n
            q_vec == index_args.query_emb.v
        IN  /\ index_pc = "done"
            /\ Len(index_ret) = m
            /\ \A j \in 1..m :
                  /\ index_ret[j] \in 1..n
                  /\ rank(chunks_before, q_vec, index_ret[j]) = j - 1
            /\ \A i, j \in 1..m : i # j => index_ret[i] # index_ret[j]

\* every component of the vector is 0
all_zero(v) == \A i \in 1..Len(v) : v[i] = 0

\* the smaller of two integers
min_of(a, b) == IF a < b THEN a ELSE b

\* C21: a query whose embedding has norm zero is not a failed query: on a
\* store of n > 0 chunks every chunk scores 0 and search returns the first
\* min(k, n) chunks in insertion order, not the empty list and not an error.
C21_ZeroNormQueryRanksAll ==
    (/\ index_op = "search"
     /\ index_pc \in {"done", "raised"}
     /\ chunks_before # <<>>
     /\ is_vector(index_args.query_emb)
     /\ all_zero(index_args.query_emb.v)
     /\ index_args.k >= 0) =>
        /\ index_pc = "done"
        /\ index_ret = [j \in 1..min_of(index_args.k, Len(chunks_before)) |-> j]

\* the positions at which search returned chunk i
returned_at(i) == { p \in 1..Len(index_ret) : index_ret[p] = i }

\* C22: a stored chunk whose embedding has norm zero scores 0 in every
\* search whose query embedded: no error is raised, the chunk comes after
\* every chunk of positive score and before every chunk of negative score,
\* and it is returned whenever fewer than k chunks come before it.
C22_ZeroNormChunkScoresZero ==
    (/\ index_op = "search"
     /\ index_pc \in {"done", "raised"}
     /\ is_vector(index_args.query_emb)
     /\ index_args.k >= 0) =>
        \A z \in 1..Len(chunks_before) :
            all_zero(chunks_before[z].embedding) =>
                LET q_vec == index_args.query_emb.v
                    sign_of(j) == dot(q_vec, chunks_before[j].embedding)
                    ahead == { j \in 1..Len(chunks_before) :
                                   \/ sign_of(j) > 0
                                   \/ sign_of(j) = 0 /\ j < z }
                IN  /\ index_pc = "done"
                    /\ Cardinality(ahead) < index_args.k => returned_at(z) # {}
                    /\ \A p \in returned_at(z) : \A r \in 1..Len(index_ret) :
                          /\ sign_of(index_ret[r]) > 0 => r < p
                          /\ sign_of(index_ret[r]) < 0 => p < r

\* the store with the embedding of chunk i multiplied by the constant s; the
\* products of small integers are exact in float32
rescaled(store, i, s) ==
    [store EXCEPT ![i].embedding = [d \in 1..Len(@) |-> s * @[d]]]

\* search returns the same chunks in the same order whichever chunk of the
\* store is rescaled by whichever of the constants
same_after_rescaling(constants) ==
    (index_op = "search" /\ index_pc = "done") =>
        \A i \in 1..Len(chunks_before) : \A s \in constants :
            search(rescaled(chunks_before, i, s), index_args.query_emb,
                   index_args.k) = Returned(index_ret)

\* C23 as stated: multiplying one stored embedding by any positive constant
\* leaves the result of every search unchanged.
C23_RescalingInvariant == same_after_rescaling({2, 3})

\* C23 amended: multiplying one stored embedding by a positive power of two,
\* which float32 does exactly, leaves the result of every search unchanged.
C23_PowerOfTwoRescalingInvariant == same_after_rescaling({2, 4})

\* two chunks of the same direction were ranked in insertion order; the
\* second doubled, the order is the same; the second tripled, its score is
\* one rounding step higher and it comes first
C23_Witness ==
    /\ index_op = "search"
    /\ index_pc = "done"
    /\ index_args.query_emb = JList(<<1, 1>>)
    /\ index_args.k = 2
    /\ Len(chunks_before) = 2
    /\ chunks_before[1].embedding = <<2, 0>>
    /\ chunks_before[2].embedding = <<1, 0>>
    /\ index_ret = <<1, 2>>
    /\ search(rescaled(chunks_before, 2, 2), index_args.query_emb, 2)
           = Returned(<<1, 2>>)
    /\ search(rescaled(chunks_before, 2, 3), index_args.query_emb, 2)
           = Returned(<<2, 1>>)

----------------------------------------------------------------------------
(* Properties of a SimpleVectorStore session *)

\* C24: clear() empties the store whatever calls came before it, and from
\* then on the store stays empty and every search returns the empty list,
\* until add_chunks adds a chunk: a step that is a clear leaves no chunk; on
\* an empty store a search returns the empty list without an error; and only
\* add_chunks makes an empty store non-empty.
C24_ClearResets ==
    [][ /\ index_op' = "clear" => chunks' = <<>>
        /\ (chunks = <<>> /\ index_op' = "search") =>
               (index_pc' = "done" /\ index_ret' = <<>>)
        /\ (chunks = <<>> /\ chunks' # <<>>) => index_op' = "add_chunks"
      ]_vars

\* clear() was called on a store of three chunks and left it empty
C24_Witness ==
    /\ index_op = "clear"
    /\ Len(chunks_before) = 3
    /\ chunks = <<>>

----------------------------------------------------------------------------
(* Properties of the rounds against the ledger *)

\* the batches of candidates of a round
RoundBatches == { DataFrame(f) : f \in SeqsUpTo(FrontTexts, MaxRoundBatch) }

\* the keys of the records of the ledger
ledger_keys == keys_of(existing_fronts(files, GuestEmail))

\* what a round keeps of a batch, the ledger being fs
kept_of(batch, fs) == deduplicate_cards(batch, existing_fronts(fs, GuestEmail))

\* C25: no candidate whose normalized front is that of a record of the
\* ledger is ever kept; and once a non-empty batch has been filtered and what
\* was kept appended to the ledger, filtering the same batch again against
\* the ledger keeps nothing.
C25_NoRedelivery ==
    /\ [] (\A batch \in RoundBatches :
              \A i \in 1..Len(kept_of(batch, files)) :
                  claim_key(kept_of(batch, files)[i].Front) \notin ledger_keys)
    /\ [][ \A batch \in RoundBatches :
              (/\ batch # <<>>
               /\ files' = add_cards(files, GuestEmail, kept_of(batch, files),
                                     "Generated", clock))
                  => kept_of(batch, files') = <<>>
         ]_vars

\* two rounds have appended to the ledger, which holds two keys, and a batch
\* of two candidates of these keys is filtered to nothing
C25_Witness ==
    /\ clock = 2
    /\ Cardinality(ledger_keys) = 2
    /\ \E batch \in RoundBatches :
          /\ Len(batch) = 2
          /\ claim_key(batch[1].Front) # claim_key(batch[2].Front)
          /\ kept_of(batch, files) = <<>>

----------------------------------------------------------------------------
(* Properties of the batch outcome *)

\* C26: when the addNotes request of a batch of n notes completes and the
\* response carries no top-level error, success_count + len(errors) is n; a
\* batch that is not empty never gives (0, []).
C26_EveryNoteAccounted ==
    ( /\ sync_op = "push_notes"
      /\ sync_pc \in {"done", "raised"}
      /\ store_reports_no_error(note_outcome) )
    => /\ sync_pc = "done"
       /\ notes_ret.success_count + Len(notes_ret.errors) = notes
       /\ notes > 0 => notes_ret # [success_count |-> 0, errors |-> <<>>]

----------------------------------------------------------------------------
(* Properties of CardHistory with two users *)

\* C27: two distinct users have distinct history files, so that add_cards,
\* delete_deck and clear_history called for one user leave the records
\* get_history returns for the other user as they were.
C27_UsersIsolated ==
    (ledger_pc \in {"done", "raised"} /\ ledger_args.email # GuestEmail) =>
        /\ _get_user_file(ledger_args.email) # _get_user_file(GuestEmail)
        /\ get_history(files, GuestEmail) = get_history(files_before, GuestEmail)

----------------------------------------------------------------------------
(* Properties of interleaved add_cards calls *)

\* C28: when two add_cards calls of the same user interleave their load and
\* save steps, the ledger holds the records of both batches once both have
\* returned.
C28_NoLostUpdate ==
    (\A w \in Writers : writer_pc[w] = "done") =>
        Len(get_history(files, GuestEmail))
            = Len(writer_cards[1]) + Len(writer_cards[2])

----------------------------------------------------------------------------
(* The frame of delete_deck and of search *)

\* C29: delete_deck leaves every record that does not match in the ledger,
\* as it was and in its order; when no record matches, the history file is
\* not rewritten and 0 is returned; and the same delete made again at once
\* returns 0 and changes nothing.
C29_DeleteFrame ==
    (ledger_op = "delete_deck" /\ ledger_pc = "done") =>
        LET email == ledger_args.email
            before == get_history(files_before, email)
            after == get_history(files, email)
            unmatched == { i \in 1..Len(before) : ~ to_remove(before[i], ledger_args) }
            again == delete_deck(files, email, ledger_args.deck_name,
                                 ledger_args.include_subdecks)
        IN  /\ Len(after) = Cardinality(unmatched)
            /\ \A n \in 1..Cardinality(unmatched) :
                  after[n] = before[nth_of(unmatched, n)]
            /\ Cardinality(unmatched) = Len(before) =>
                  (files = files_before /\ ledger_count = 0)
            /\ again.count = 0
            /\ again.files = files

\* delete_deck("A", False) removed the first of three records and left the
\* records of AP and of A::H in their order
C29_Witness ==
    /\ ledger_op = "delete_deck"
    /\ ledger_pc = "done"
    /\ ledger_args.deck_name = <<"A">>
    /\ ~ ledger_args.include_subdecks
    /\ decks_of(get_history(files_before, GuestEmail))
           = << <<"A">>, <<"A", "P">>, <<"A", ":", ":", "H">> >>
    /\ decks_of(get_history(files, GuestEmail))
           = << <<"A", "P">>, <<"A", ":", ":", "H">> >>
    /\ ledger_count = 1

\* the branch search took on this store with this answer of get_embedding
search_branch(store, query_emb) ==
    IF store = <<>> THEN "empty index"
    ELSE IF query_failed(query_emb) THEN "failed query"
    ELSE IF query_emb.t = "list" /\ norm_is_zero(query_emb.v) THEN "zero norm"
    ELSE "ranking"

\* C30: whichever branch search takes, the index holds after the call the
\* chunks it held before, in the same order, and the same search made again
\* with the same query embedding gives the same result.
C30_SearchReadOnly ==
    index_op = "search" =>
        /\ chunks = chunks_before
        /\ LET again == search(chunks, index_args.query_emb, index_args.k)
           IN  IF index_pc = "raised"
                   THEN again = Raises(index_raised)
                   ELSE again = Returned(index_ret)

\* a search that ranked a store of several chunks and returned them in an
\* order that is not the order of insertion
C30_Witness ==
    /\ index_op = "search"
    /\ index_pc = "done"
    /\ search_branch(chunks_before, index_args.query_emb) = "ranking"
    /\ Len(chunks_before) >= 2
    /\ Len(index_ret) = 2
    /\ index_ret[1] > index_ret[2]

====
